---------------------------- MODULE Spec2Model ----------------------------
(* A model of the section navigator (src/src/components/SectionObserver.tsx)
   and of the glyph-field background with its ripples
   (src/src/components/AsciiCanvas.tsx).

   Times are milliseconds.  A value the code holds as "T | null" is a set
   with at most one element: {} is null, {v} is the value v.  Section
   indexes are 0-based as in the code; sections[i + 1] is section i.      *)
EXTENDS Integers, Sequences, FiniteSets, TLC

(* ------------------------------------------------------------------ *)
(* Program constants                                                   *)
(* ------------------------------------------------------------------ *)
SCROLL_LOCK_MS == 900
WHEEL_TRIGGER == 80
TOUCH_TRIGGER == 70
WHEEL_RESET_MS == 220
\* the observer's lowest threshold, 0.5, in hundredths like the ratios
OBSERVER_THRESHOLD == 50
CELL_SIZE == 18
MAX_RIPPLES == 6
\* STAR_DENSITY, 0.012, in thousandths
STAR_DENSITY == 12
\* the least number of draws regenerateStars makes
MIN_STARS == 80
\* a ripple's duration, 2.6 s, in milliseconds
RIPPLE_DURATION_MS == 2600
\* a ripple's speed, 7.1, in tenths
RIPPLE_SPEED == 71
\* ripple strengths in hundredths: a section change's and the startup ripple's
STRENGTH_SECTION == 65
STRENGTH_STARTUP == 40

(* ------------------------------------------------------------------ *)
(* Bounds of the model                                                 *)
(* ------------------------------------------------------------------ *)
MaxSections == 3
MaxTime == 1000
MaxCount == 2
MaxFrameTime == 3900

(* Inputs the environment delivers. *)
DeltaYs == {-80, -40, 40, 80}
TouchYs == {430, 500}
Ratios == {30, 60}
\* the clock advances by the wheel-reset window, or to the next timer due
TickMs == WHEEL_RESET_MS
\* with only the canvas mounted it advances by half a ripple's duration
FrameTickMs == RIPPLE_DURATION_MS \div 2
\* the canvas's client size
Viewports == {[width |-> 1000, height |-> 800]}
\* details of the section-change events the window delivers; "" is a
\* missing field, and a missing detail has both fields missing
EventIds == {"", "tech", "blog"}
EventSides == {"", "left", "right"}
\* an event without an id comes without a detail
EventDetails ==
    {[id |-> "", side |-> ""]}
    \cup {[id |-> id, side |-> side] : id \in EventIds \ {""}, side \in EventSides}
\* the cell a frame is sampled at: the wave term there in tenths, and the
\* spatial decay exp(-dist * 0.001) there in tenths
CellSamples == {[wave |-> -10, spatial |-> 10], [wave |-> 10, spatial |-> 4]}

\* the window sizes a resize reports
WindowSizes ==
    {[width |-> w, height |-> h] : w \in {0, 18, 40, 1000, 1800},
                                   h \in {0, 18, 40, 800, 1350}}
\* the results of Math.random() over one regenerateStars: draw number i
\* (from 0) falls on cell (first + step * i) modulo the number of cells
DrawSequences ==
    {[first |-> a, step |-> b] : a \in {0, 2, 5}, b \in {0, 1, 7, 11}}
\* the draws made at mount, and at a resize to the same size: the sequence
\* that keeps the mask smallest
MountDraws == [first |-> 0, step |-> 0]

VARIABLES
    sections,          \* the elements found at mount, in document order
    navMounted,        \* listeners registered and observer connected
    rafPending,        \* the deferred initial activation is still requested
    rafRuns,           \* how often the deferred initial activation has run
    activeIndex, isAnimating, wheelDelta, wheelResetTimer, releaseTimer,
    touchStartY, activeSide,
    timers,            \* the window's pending setTimeout timers
    now,               \* the clock
    scrolled,          \* scrollIntoView calls made by the latest step
    dispatched,        \* events dispatched by the latest step
    hist,              \* the latest step: its kind, input and pre-state
    canvasMounted,     \* the canvas's listeners are registered
    viewport,          \* canvas.clientWidth and canvas.clientHeight
    gridMeta,          \* gridMetaRef.current
    starMask,          \* starMaskRef.current: its length, the indexes set to 1
    ripples,           \* ripplesRef.current
    activeSection,     \* the component's activeSection state
    closureSection,    \* the activeSection binding the effect's closures hold
    animationRef,      \* animationRef.current
    frameRequests,     \* the window's pending requestAnimationFrame requests
    frame,             \* what the latest step painted, if it was a frame
    lockedAt,          \* when the current lock was set
    touchScrolls,      \* scrollToIndex calls by touch-move since touch-start
    request            \* target of the programmatic scroll the lock covers

vars == <<sections, navMounted, rafPending, rafRuns, activeIndex, isAnimating,
          wheelDelta, wheelResetTimer, releaseTimer, touchStartY, activeSide,
          timers, now, scrolled, dispatched, hist, lockedAt,
          touchScrolls, request, canvasMounted, viewport, gridMeta, starMask,
          ripples,
          activeSection, closureSection, animationRef, frameRequests, frame>>

Abs(x) == IF x < 0 THEN -x ELSE x
Min(a, b) == IF a < b THEN a ELSE b
Max(a, b) == IF a > b THEN a ELSE b

(* ------------------------------------------------------------------ *)
(* Sections read once at mount                                         *)
(* ------------------------------------------------------------------ *)
SectionIds == <<"about", "tech", "events", "contact", "links", "more">>

\* A page of n sections alternating left/right; section number blank
\* (1-based, 0 for none) carries an empty data-section-id, and the last
\* section of a page with a blank one carries no data-section-side.
Layout(n, blank) ==
    [i \in 1..n |->
        [id   |-> IF i = blank THEN "" ELSE SectionIds[i],
         side |-> IF blank # 0 /\ i = n THEN ""
                  ELSE IF i % 2 = 1 THEN "left" ELSE "right"]]

Layouts == {Layout(n, 0) : n \in 1..MaxSections} \cup {Layout(MaxSections, 2)}

(* ------------------------------------------------------------------ *)
(* The mutable state as one record, which the handlers transform       *)
(* ------------------------------------------------------------------ *)
NoFrame ==
    [painted |-> FALSE, timestamp |-> 0, cells |-> <<>>, value |-> 0,
     colorTint |-> ""]

Cur ==
    [activeIndex |-> activeIndex, isAnimating |-> isAnimating,
     wheelDelta |-> wheelDelta, wheelResetTimer |-> wheelResetTimer,
     releaseTimer |-> releaseTimer, touchStartY |-> touchStartY,
     activeSide |-> activeSide, timers |-> timers,
     scrolled |-> <<>>, dispatched |-> <<>>, scrollCalls |-> 0,
     ripples |-> ripples, activeSection |-> activeSection,
     animationRef |-> animationRef, frameRequests |-> frameRequests,
     frame |-> NoFrame, viewport |-> viewport, gridMeta |-> gridMeta,
     starMask |-> starMask, draws |-> 0]

Snapshot ==
    [activeIndex |-> activeIndex, isAnimating |-> isAnimating,
     wheelDelta |-> wheelDelta, touchStartY |-> touchStartY,
     activeSide |-> activeSide,
     ripples |-> ripples, activeSection |-> activeSection]

(* window.setTimeout / window.clearTimeout *)
FreshId(s) ==
    LET used == {t.id : t \in s.timers} \cup s.wheelResetTimer \cup s.releaseTimer
    IN  CHOOSE i \in 1..(Cardinality(used) + 1) : i \notin used

clearTimeout(pending, handle) == {t \in pending : t.id \notin handle}

setTimeout(pending, id, kind, ms) ==
    pending \cup {[id |-> id, kind |-> kind, due |-> now + ms]}

resetWheel(s) ==
    [s EXCEPT !.timers = clearTimeout(s.timers, s.wheelResetTimer),
              !.wheelResetTimer = {},
              !.wheelDelta = 0]

\* faulty variant: the timer is cleared but the flag is left set
unlockScroll_flagKept(s) ==
    [s EXCEPT !.timers = clearTimeout(s.timers, s.releaseTimer),
              !.releaseTimer = {}]

unlockScroll(s) ==
    [s EXCEPT !.timers = clearTimeout(s.timers, s.releaseTimer),
              !.releaseTimer = {},
              !.isAnimating = FALSE]

\* faulty variant: the timer pending is not cleared before the next is set
scheduleWheelReset_stacking(s) ==
    LET id == FreshId(s)
    IN  [s EXCEPT !.timers = setTimeout(s.timers, id, "wheelReset",
                                         WHEEL_RESET_MS),
                  !.wheelResetTimer = {id}]

scheduleWheelReset(s) ==
    LET cleared == [s EXCEPT !.timers = clearTimeout(s.timers, s.wheelResetTimer)]
        id == FreshId(cleared)
    IN  [cleared EXCEPT !.timers = setTimeout(cleared.timers, id, "wheelReset",
                                               WHEEL_RESET_MS),
                        !.wheelResetTimer = {id}]

\* faulty variant: the lock is set without a timer to release it
scrollToIndex_untimed(s, index) ==
    IF index < 0 \/ index >= Len(sections) THEN s
    ELSE LET r == resetWheel(s)
         IN  [r EXCEPT !.isAnimating = TRUE,
                       !.scrolled = Append(@, index),
                       !.scrollCalls = @ + 1,
                       !.timers = clearTimeout(r.timers, r.releaseTimer),
                       !.releaseTimer = {}]

scrollToIndex(s, index) ==
    IF index < 0 \/ index >= Len(sections) THEN s
    ELSE LET r == resetWheel(s)
             cleared == [r EXCEPT !.timers = clearTimeout(r.timers, r.releaseTimer)]
             id == FreshId(cleared)
         IN  [cleared EXCEPT
                 !.isAnimating = TRUE,
                 !.scrolled = Append(@, index),
                 !.scrollCalls = @ + 1,
                 !.timers = setTimeout(cleared.timers, id, "release",
                                       SCROLL_LOCK_MS),
                 !.releaseTimer = {id}]

(* ------------------------------------------------------------------ *)
(* AsciiCanvas                                                         *)
(* ------------------------------------------------------------------ *)
Ceil(a, b) == (a + b - 1) \div b

StarCount(total) == Max(MIN_STARS, (total * STAR_DENSITY) \div 1000)

\* Math.floor(Math.random() * total) at draw i
DrawIndex(draws, i, total) ==
    IF total = 0 THEN 0 ELSE (draws.first + draws.step * i) % total

\* the mask after the loop: a write past the array's end is dropped
MaskOf(total, draws) ==
    [length |-> total,
     stars |-> {idx \in {DrawIndex(draws, i, total) :
                             i \in 0..(StarCount(total) - 1)} :
                   idx < total}]

\* the masks of the grids the windows give, worked out once
GridTotals ==
    {Ceil(w.width, CELL_SIZE) * Ceil(w.height, CELL_SIZE) :
        w \in WindowSizes \cup Viewports}

StarMasks ==
    [total \in GridTotals, draws \in DrawSequences \cup {MountDraws} |->
        MaskOf(total, draws)]

StarMask(cols, rows, draws) == StarMasks[cols * rows, draws]

\* faulty variant: there is no least number of draws
regenerateStars_densityOnly(s, cols, rows, draws) ==
    LET total == cols * rows
        starCount == (total * STAR_DENSITY) \div 1000
    IN  [s EXCEPT !.starMask =
                      [length |-> total,
                       stars |-> {DrawIndex(draws, i, total) :
                                     i \in 0..(starCount - 1)}],
                  !.draws = starCount]

regenerateStars(s, cols, rows, draws) ==
    [s EXCEPT !.starMask = StarMask(cols, rows, draws),
              !.draws = StarCount(cols * rows)]

\* the canvas takes the window's size
handleResize(s, window, draws) ==
    LET cols == Ceil(window.width, CELL_SIZE)
        rows == Ceil(window.height, CELL_SIZE)
    IN  regenerateStars(
            [s EXCEPT !.viewport = window,
                      !.gridMeta = [cols |-> cols, rows |-> rows,
                                    cell |-> CELL_SIZE]],
            cols, rows, draws)

Ripple(originX, originY, strength) ==
    [x |-> originX, y |-> originY, start |-> now,
     duration |-> RIPPLE_DURATION_MS, speed |-> RIPPLE_SPEED,
     strength |-> strength]

\* faulty variant: at capacity the ripple just pushed is the one dropped
pushRipple_newestDropped(s, originX, originY, strength) ==
    LET pushed == Append(s.ripples, Ripple(originX, originY, strength))
    IN  [s EXCEPT !.ripples = IF Len(pushed) > MAX_RIPPLES
                               THEN SubSeq(pushed, 1, MAX_RIPPLES)
                               ELSE pushed]

pushRipple(s, originX, originY, strength) ==
    LET pushed == Append(s.ripples, Ripple(originX, originY, strength))
    IN  [s EXCEPT !.ripples = IF Len(pushed) > MAX_RIPPLES THEN Tail(pushed)
                               ELSE pushed]

\* faulty variant: the ripple starts on the content's own side
handleSectionChange_sameSide(s, detail) ==
    IF detail.id = "" THEN s
    ELSE LET contentSide == IF detail.side = "" THEN "left" ELSE detail.side
             originX == IF contentSide = "left" THEN (viewport.width * 18) \div 100
                        ELSE (viewport.width * 82) \div 100
         IN  pushRipple([s EXCEPT !.activeSection = detail.id],
                        originX, (viewport.height * 45) \div 100,
                        STRENGTH_SECTION)

handleSectionChange(s, detail) ==
    IF detail.id = "" THEN s
    ELSE LET contentSide == IF detail.side = "" THEN "left" ELSE detail.side
             iconSide == IF contentSide = "left" THEN "right" ELSE "left"
             originX == IF iconSide = "left" THEN (viewport.width * 18) \div 100
                        ELSE (viewport.width * 82) \div 100
         IN  pushRipple([s EXCEPT !.activeSection = detail.id],
                        originX, (viewport.height * 45) \div 100,
                        STRENGTH_SECTION)

\* faulty variant: the decay is not clamped at 0
TemporalDecay_unclamped(age, duration) == duration - age

\* max(0, 1 - age / duration), times duration
TemporalDecay(age, duration) == Max(0, duration - age)

\* one ripple's term of a cell's value: its age, its temporal decay and
\* wave * attenuation * strength, scaled
RippleTerm(ripple, timestamp, cell) ==
    LET age == timestamp - ripple.start
        decay == TemporalDecay(age, ripple.duration)
    IN  [age |-> age, decay |-> decay,
         value |-> cell.wave * decay * cell.spatial * ripple.strength]

RECURSIVE SumValues(_)
SumValues(terms) ==
    IF terms = <<>> THEN 0 ELSE terms[1].value + SumValues(Tail(terms))

\* the colour of the cells that are not stars
ColorTint(section) ==
    IF section = "tech" THEN "172, 196, 232"
    ELSE IF section = "events" THEN "236, 206, 182"
    ELSE "184, 198, 224"

requestAnimationFrame(s) ==
    LET id == CHOOSE i \in 1..(Cardinality(s.frameRequests) + 2) :
                  i \notin s.frameRequests \cup s.animationRef
    IN  [s EXCEPT !.frameRequests = @ \cup {id}, !.animationRef = {id}]

\* faulty variant: a frame drops the ripples whose age exceeds their duration
renderFrame_pruning(s, timestamp, cell) ==
    LET cells == [r \in 1..Len(s.ripples) |->
                     RippleTerm(s.ripples[r], timestamp, cell)]
        live == SelectSeq(s.ripples,
                          LAMBDA r : timestamp - r.start <= r.duration)
    IN  requestAnimationFrame(
            [s EXCEPT !.ripples = live,
                      !.frame = [painted |-> TRUE, timestamp |-> timestamp,
                                 cells |-> cells, value |-> SumValues(cells),
                                 colorTint |-> ColorTint(closureSection)]])

\* a frame at one cell: the ripples' part of its value, and its colour when
\* it is not a star; the effect ran once, after the first render, so the
\* activeSection the function reads is that render's
renderFrame(s, timestamp, cell) ==
    LET cells == [r \in 1..Len(s.ripples) |->
                     RippleTerm(s.ripples[r], timestamp, cell)]
    IN  requestAnimationFrame(
            [s EXCEPT !.frame = [painted |-> TRUE, timestamp |-> timestamp,
                                 cells |-> cells, value |-> SumValues(cells),
                                 colorTint |-> ColorTint(closureSection)]])

(* window.dispatchEvent: the event is delivered to the registered listener
   before the call returns. *)
dispatchEvent(s, detail) ==
    LET sent == [s EXCEPT !.dispatched = Append(@, detail)]
    IN  IF canvasMounted THEN handleSectionChange(sent, detail) ELSE sent

\* faulty variant: an element that is already the active one is not published again
setActive_deduped(s, element) ==
    LET id == sections[element + 1].id
        sectionSide == sections[element + 1].side
        side == IF sectionSide = "right" THEN "right" ELSE "left"
    IN  IF id = "" \/ element = s.activeIndex THEN s
        ELSE dispatchEvent([s EXCEPT !.activeIndex = element,
                                     !.activeSide = side],
                           [id |-> id, side |-> side])

\* faulty variant: an element without an id is activated like any other
setActive_idUnchecked(s, element) ==
    LET id == sections[element + 1].id
        sectionSide == sections[element + 1].side
        side == IF sectionSide = "right" THEN "right" ELSE "left"
    IN  dispatchEvent([s EXCEPT !.activeIndex = element,
                                !.activeSide = side],
                      [id |-> id, side |-> side])

\* element is the index of the section element activated
setActive(s, element) ==
    LET id == sections[element + 1].id
        sectionSide == sections[element + 1].side
        side == IF sectionSide = "right" THEN "right" ELSE "left"
    IN  IF id = "" THEN s
        ELSE dispatchEvent([s EXCEPT !.activeIndex = element,
                                     !.activeSide = side],
                           [id |-> id, side |-> side])

(* The IntersectionObserver callback: the intersecting entry with the
   highest ratio; the sort is stable, so among equal ratios the first. *)
Intersecting(entries) == SelectSeq(entries, LAMBDA e : e.isIntersecting)

Visible(entries) ==
    LET f == Intersecting(entries)
        best == CHOOSE i \in 1..Len(f) :
                    /\ \A j \in 1..Len(f) : f[j].intersectionRatio <= f[i].intersectionRatio
                    /\ \A j \in 1..(i - 1) : f[j].intersectionRatio < f[i].intersectionRatio
    IN  IF Len(f) = 0 THEN {} ELSE {f[best]}

observerCallback(s, entries) ==
    LET visible == Visible(entries)
    IN  IF visible = {} THEN s
        ELSE setActive(s, (CHOOSE e \in visible : TRUE).target)

\* faulty variant: a locked navigator still accumulates, without firing
handleWheel_accumulatesLocked(s, deltaY) ==
    LET a == scheduleWheelReset([s EXCEPT !.wheelDelta = @ + deltaY])
    IN  IF s.isAnimating \/ Abs(a.wheelDelta) < WHEEL_TRIGGER THEN a
        ELSE LET direction == IF a.wheelDelta > 0 THEN 1 ELSE -1
                 targetIndex == a.activeIndex + direction
             IN  resetWheel(
                   IF targetIndex >= 0 /\ targetIndex < Len(sections)
                   THEN scrollToIndex(a, targetIndex)
                   ELSE a)

\* faulty variant: the direction of the burst is read the wrong way round
handleWheel_reversed(s, deltaY) ==
    IF s.isAnimating THEN s
    ELSE LET a == scheduleWheelReset([s EXCEPT !.wheelDelta = @ + deltaY])
         IN  IF Abs(a.wheelDelta) < WHEEL_TRIGGER THEN a
             ELSE LET direction == IF a.wheelDelta > 0 THEN -1 ELSE 1
                      targetIndex == a.activeIndex + direction
                  IN  resetWheel(
                        IF targetIndex >= 0 /\ targetIndex < Len(sections)
                        THEN scrollToIndex(a, targetIndex)
                        ELSE a)

\* faulty variant: the target is clamped into range instead of being rejected
handleWheel_clamped(s, deltaY) ==
    IF s.isAnimating THEN s
    ELSE LET a == scheduleWheelReset([s EXCEPT !.wheelDelta = @ + deltaY])
         IN  IF Abs(a.wheelDelta) < WHEEL_TRIGGER THEN a
             ELSE LET direction == IF a.wheelDelta > 0 THEN 1 ELSE -1
                      targetIndex == Max(0, Min(Len(sections) - 1,
                                                a.activeIndex + direction))
                  IN  resetWheel(scrollToIndex(a, targetIndex))

\* faulty variant: the accumulator is reset only when a transition fired
handleWheel_resetOnFire(s, deltaY) ==
    IF s.isAnimating THEN s
    ELSE LET a == scheduleWheelReset([s EXCEPT !.wheelDelta = @ + deltaY])
         IN  IF Abs(a.wheelDelta) < WHEEL_TRIGGER THEN a
             ELSE LET direction == IF a.wheelDelta > 0 THEN 1 ELSE -1
                      targetIndex == a.activeIndex + direction
                  IN  IF targetIndex >= 0 /\ targetIndex < Len(sections)
                      THEN resetWheel(scrollToIndex(a, targetIndex))
                      ELSE a

handleWheel(s, deltaY) ==
    IF s.isAnimating THEN s
    ELSE LET a == scheduleWheelReset([s EXCEPT !.wheelDelta = @ + deltaY])
         IN  IF Abs(a.wheelDelta) < WHEEL_TRIGGER THEN a
             ELSE LET direction == IF a.wheelDelta > 0 THEN 1 ELSE -1
                      targetIndex == a.activeIndex + direction
                  IN  resetWheel(
                        IF targetIndex >= 0 /\ targetIndex < Len(sections)
                        THEN scrollToIndex(a, targetIndex)
                        ELSE a)

handleTouchStart(s, nTouches, clientY) ==
    IF nTouches # 1 THEN s
    ELSE resetWheel([s EXCEPT !.touchStartY = {clientY}])

\* faulty variant: the lock flag is not consulted
handleTouchMove_unlocked(s, currentY) ==
    IF s.touchStartY = {} THEN s
    ELSE LET delta == (CHOOSE y \in s.touchStartY : TRUE) - currentY
         IN  IF Abs(delta) < TOUCH_TRIGGER THEN s
             ELSE LET direction == IF delta > 0 THEN 1 ELSE -1
                      targetIndex == s.activeIndex + direction
                      t == IF targetIndex >= 0 /\ targetIndex < Len(sections)
                           THEN scrollToIndex(s, targetIndex)
                           ELSE s
                  IN  [t EXCEPT !.touchStartY = {}]

\* faulty variant: the start coordinate survives the trigger
handleTouchMove_startKept(s, currentY) ==
    IF s.touchStartY = {} \/ s.isAnimating THEN s
    ELSE LET delta == (CHOOSE y \in s.touchStartY : TRUE) - currentY
         IN  IF Abs(delta) < TOUCH_TRIGGER THEN s
             ELSE LET direction == IF delta > 0 THEN 1 ELSE -1
                      targetIndex == s.activeIndex + direction
                  IN  IF targetIndex >= 0 /\ targetIndex < Len(sections)
                      THEN scrollToIndex(s, targetIndex)
                      ELSE s

handleTouchMove(s, currentY) ==
    IF s.touchStartY = {} \/ s.isAnimating THEN s
    ELSE LET delta == (CHOOSE y \in s.touchStartY : TRUE) - currentY
         IN  IF Abs(delta) < TOUCH_TRIGGER THEN s
             ELSE LET direction == IF delta > 0 THEN 1 ELSE -1
                      targetIndex == s.activeIndex + direction
                      t == IF targetIndex >= 0 /\ targetIndex < Len(sections)
                           THEN scrollToIndex(s, targetIndex)
                           ELSE s
                  IN  [t EXCEPT !.touchStartY = {}]

handleTouchEnd(s) == [s EXCEPT !.touchStartY = {}]

(* ------------------------------------------------------------------ *)
(* Steps                                                               *)
(* ------------------------------------------------------------------ *)
SatInc(n, by) == Min(MaxCount, n + by)

Commit(s, op, arg) ==
    /\ activeIndex' = s.activeIndex
    /\ isAnimating' = s.isAnimating
    /\ wheelDelta' = s.wheelDelta
    /\ wheelResetTimer' = s.wheelResetTimer
    /\ releaseTimer' = s.releaseTimer
    /\ touchStartY' = s.touchStartY
    /\ activeSide' = s.activeSide
    /\ timers' = s.timers
    /\ scrolled' = s.scrolled
    /\ dispatched' = s.dispatched
    /\ hist' = [op |-> op, arg |-> arg, pre |-> Snapshot]
    /\ ripples' = s.ripples
    /\ activeSection' = s.activeSection
    /\ animationRef' = s.animationRef
    /\ frameRequests' = s.frameRequests
    /\ frame' = s.frame
    /\ lockedAt' = IF s.scrollCalls > 0 /\ ~isAnimating THEN {now}
                   ELSE IF ~s.isAnimating THEN {}
                   ELSE lockedAt
    /\ touchScrolls' =
          IF op = "touchstart" /\ arg = 1 THEN 0
          ELSE IF op = "touchmove" THEN SatInc(touchScrolls, s.scrollCalls)
          ELSE touchScrolls
    /\ rafRuns' = IF op = "raf" THEN SatInc(rafRuns, 1) ELSE rafRuns
    /\ request' = IF s.scrollCalls > 0 THEN {s.scrolled[Len(s.scrolled)]}
                  ELSE IF ~s.isAnimating \/ op = "teardown" THEN {}
                  ELSE request
    /\ viewport' = s.viewport
    /\ gridMeta' = s.gridMeta
    /\ starMask' = s.starMask
    /\ UNCHANGED <<sections, now, closureSection>>

Wheel(deltaY) ==
    /\ navMounted
    /\ Commit(handleWheel(Cur, deltaY), "wheel", deltaY)
    /\ UNCHANGED <<navMounted, rafPending, canvasMounted>>

TouchStart(nTouches, clientY) ==
    /\ navMounted
    /\ Commit(handleTouchStart(Cur, nTouches, clientY), "touchstart", nTouches)
    /\ UNCHANGED <<navMounted, rafPending, canvasMounted>>

TouchMove(currentY) ==
    /\ navMounted
    /\ Commit(handleTouchMove(Cur, currentY), "touchmove", currentY)
    /\ UNCHANGED <<navMounted, rafPending, canvasMounted>>

\* touchend and touchcancel share the handler
TouchEnd ==
    /\ navMounted
    /\ Commit(handleTouchEnd(Cur), "touchend", 0)
    /\ UNCHANGED <<navMounted, rafPending, canvasMounted>>

(* The entries of one IntersectionObserver notification. *)
Entry(target, isIntersecting, ratio) ==
    [target |-> target, isIntersecting |-> isIntersecting,
     intersectionRatio |-> ratio]

Entries ==
    {Entry(t, TRUE, r) : t \in 0..(Len(sections) - 1), r \in Ratios}
    \cup {Entry(t, FALSE, 0) : t \in 0..(Len(sections) - 1)}

\* A notification holds one entry for each element whose visibility changed,
\* in the order the elements were observed: one section, or two neighbours
\* sharing the viewport.
EntryLists ==
    {<<e>> : e \in Entries}
    \cup UNION {{<<e, f>> : f \in {g \in Entries : g.target = e.target + 1}} :
                e \in Entries}

\* hist.arg is the entry the notification selects, NoEntry when it selects
\* none
NoEntry == Entry(-1, FALSE, 0)

Visibility(entries) ==
    /\ navMounted
    /\ Commit(observerCallback(Cur, entries), "visibility",
              IF Visible(entries) = {} THEN NoEntry
              ELSE CHOOSE e \in Visible(entries) : TRUE)
    /\ UNCHANGED <<navMounted, rafPending, canvasMounted>>

\* faulty variant: the callback requests itself again
InitialFrame_rescheduled ==
    /\ rafPending
    /\ Commit(setActive(Cur, 0), "raf", 0)
    /\ UNCHANGED <<navMounted, rafPending, canvasMounted>>

(* The frame requested at mount arrives. *)
InitialFrame ==
    /\ rafPending
    /\ Commit(setActive(Cur, 0), "raf", 0)
    /\ rafPending' = FALSE
    /\ UNCHANGED <<navMounted, canvasMounted>>

WheelResetFire ==
    \E t \in timers :
        /\ t.kind = "wheelReset"
        /\ t.due <= now
        /\ Commit([Cur EXCEPT !.timers = @ \ {t},
                              !.wheelDelta = 0,
                              !.wheelResetTimer = {}],
                  "wheelResetTimer", t.id)
        /\ UNCHANGED <<navMounted, rafPending, canvasMounted>>

ReleaseFire ==
    \E t \in timers :
        /\ t.kind = "release"
        /\ t.due <= now
        /\ Commit(unlockScroll([Cur EXCEPT !.timers = @ \ {t}]),
                  "releaseTimer", t.id)
        /\ UNCHANGED <<navMounted, rafPending, canvasMounted>>

\* faulty variant: the cleanup forgets the lock-release timer
NavTeardown_releaseKept ==
    /\ navMounted
    /\ Commit(resetWheel(Cur), "teardown", 0)
    /\ navMounted' = FALSE
    /\ rafPending' = FALSE
    /\ UNCHANGED canvasMounted

NavTeardown ==
    /\ navMounted
    /\ LET r == resetWheel(Cur)
       IN  Commit([r EXCEPT !.timers = clearTimeout(r.timers, r.releaseTimer)],
                  "teardown", 0)
    /\ navMounted' = FALSE
    /\ rafPending' = FALSE
    /\ UNCHANGED canvasMounted

(* The window delivers a section-change event to the canvas; hist.arg is
   the event's detail. *)
SectionChange(detail) ==
    /\ canvasMounted
    /\ Commit(handleSectionChange(Cur, detail), "sectionchange", detail)
    /\ UNCHANGED <<navMounted, rafPending, canvasMounted>>

(* The window reports a resize; hist.arg is its size and the number of
   draws regenerateStars made. *)
Resize(window, draws) ==
    /\ canvasMounted
    /\ LET t == handleResize(Cur, window, draws)
       IN  Commit(t, "resize",
                  [width |-> window.width, height |-> window.height,
                   draws |-> t.draws])
    /\ UNCHANGED <<navMounted, rafPending, canvasMounted>>

(* The requested frame is painted, at the clock's time. *)
RenderFrame(cell) ==
    \E id \in frameRequests :
        /\ Commit(renderFrame([Cur EXCEPT !.frameRequests = @ \ {id}], now, cell),
                  "frame", cell.wave)
        /\ UNCHANGED <<navMounted, rafPending, canvasMounted>>

CanvasTeardown ==
    /\ canvasMounted
    /\ Commit([Cur EXCEPT !.frameRequests = @ \ animationRef], "teardown", 1)
    /\ canvasMounted' = FALSE
    /\ UNCHANGED <<navMounted, rafPending>>

(* Time passes; a pending timer fires when it is due. *)
Tick(d, horizon) ==
    /\ d > 0
    /\ now + d <= horizon
    /\ \A t \in timers : now + d <= t.due
    /\ now' = now + d
    /\ hist' = [op |-> "tick", arg |-> 0, pre |-> Snapshot]
    /\ scrolled' = <<>>
    /\ dispatched' = <<>>
    /\ frame' = NoFrame
    /\ UNCHANGED <<sections, navMounted, rafPending, rafRuns, activeIndex,
                   isAnimating, wheelDelta, wheelResetTimer, releaseTimer, touchStartY,
                   activeSide, timers, lockedAt, touchScrolls, request,
                   canvasMounted, viewport, gridMeta, starMask, ripples,
                   activeSection, closureSection, animationRef,
                   frameRequests>>

TimeSteps == {TickMs} \cup {t.due - now : t \in timers}

NavTick == \E d \in TimeSteps : Tick(d, MaxTime)

CanvasTick == Tick(FrameTickMs, MaxFrameTime)

Idle ==
    /\ activeIndex = 0
    /\ isAnimating = FALSE
    /\ wheelDelta = 0
    /\ wheelResetTimer = {}
    /\ releaseTimer = {}
    /\ touchStartY = {}
    /\ activeSide = "left"
    /\ timers = {}
    /\ now = 0
    /\ scrolled = <<>>
    /\ dispatched = <<>>
    /\ lockedAt = {}
    /\ touchScrolls = 0
    /\ rafRuns = 0
    /\ request = {}
    /\ activeSection = "about"
    /\ closureSection = activeSection
    /\ frame = NoFrame

(* ------------------------------------------------------------------ *)
(* The navigator, mounted on a page with at least one section          *)
(* ------------------------------------------------------------------ *)
InitNav ==
    /\ sections \in Layouts
    /\ navMounted = TRUE
    /\ rafPending = TRUE
    /\ canvasMounted = FALSE
    /\ viewport \in Viewports
    /\ gridMeta = [cols |-> 0, rows |-> 0, cell |-> CELL_SIZE]
    /\ starMask = [length |-> 0, stars |-> {}]
    /\ ripples = <<>>
    /\ animationRef = {}
    /\ frameRequests = {}
    /\ Idle
    /\ hist = [op |-> "mount", arg |-> 0, pre |-> Snapshot]

NextNav ==
    \/ \E deltaY \in DeltaYs : Wheel(deltaY)
    \/ \E n \in 1..2, y \in TouchYs : TouchStart(n, y)
    \/ \E y \in TouchYs : TouchMove(y)
    \/ TouchEnd
    \/ \E entries \in EntryLists : Visibility(entries)
    \/ InitialFrame
    \/ WheelResetFire
    \/ ReleaseFire
    \/ NavTeardown
    \/ NavTick

SpecNav == InitNav /\ [][NextNav]_vars

(* ------------------------------------------------------------------ *)
(* The canvas, mounted: listeners registered, the first frame          *)
(* requested and the startup ripple pushed; the window keeps its size  *)
(* ------------------------------------------------------------------ *)
InitCanvas ==
    /\ sections = <<>>
    /\ navMounted = FALSE
    /\ rafPending = FALSE
    /\ canvasMounted = TRUE
    /\ viewport \in Viewports
    /\ gridMeta = [cols |-> Ceil(viewport.width, CELL_SIZE),
                   rows |-> Ceil(viewport.height, CELL_SIZE),
                   cell |-> CELL_SIZE]
    /\ starMask = StarMask(gridMeta.cols, gridMeta.rows, MountDraws)
    /\ Idle
    /\ ripples = <<Ripple((viewport.width * 18) \div 100,
                          (viewport.height * 45) \div 100, STRENGTH_STARTUP)>>
    /\ animationRef = {1}
    /\ frameRequests = {1}
    /\ hist = [op |-> "mount", arg |-> 0, pre |-> Snapshot]

NextCanvas ==
    \/ \E detail \in EventDetails : SectionChange(detail)
    \/ \E cell \in CellSamples : RenderFrame(cell)
    \/ CanvasTeardown
    \/ CanvasTick

SpecCanvas == InitCanvas /\ [][NextCanvas]_vars

(* ------------------------------------------------------------------ *)
(* The canvas under resizes of the window                              *)
(* ------------------------------------------------------------------ *)
NextStars ==
    \E window \in WindowSizes, draws \in DrawSequences : Resize(window, draws)

SpecStars == InitCanvas /\ [][NextStars]_vars

(* ------------------------------------------------------------------ *)
(* Either component on its own page: a page with sections, one of      *)
(* them without an id, and the navigator; or a page without sections,  *)
(* where the navigator's effect returns before registering anything    *)
(* and only the canvas lives                                           *)
(* ------------------------------------------------------------------ *)
InitComponent ==
    \/ InitNav /\ sections = Layout(MaxSections, 2)
    \/ InitCanvas

\* a resize that reports the size the window has
SameSizeResize == \E window \in Viewports : Resize(window, MountDraws)

NextComponent ==
    \/ sections # <<>> /\ NextNav
    \/ sections = <<>> /\ (NextCanvas \/ SameSizeResize)

SpecComponent == InitComponent /\ [][NextComponent]_vars


(* ------------------------------------------------------------------ *)
(* What the latest step was                                            *)
(* ------------------------------------------------------------------ *)
InRange(index) == index >= 0 /\ index < Len(sections)

\* the wheel handler ran unlocked and its accumulator reached the trigger
WheelEvaluated ==
    /\ hist.op = "wheel"
    /\ ~hist.pre.isAnimating
    /\ Abs(hist.pre.wheelDelta + hist.arg) >= WHEEL_TRIGGER

WheelTarget ==
    hist.pre.activeIndex + (IF hist.pre.wheelDelta + hist.arg > 0 THEN 1 ELSE -1)

TouchDelta == (CHOOSE y \in hist.pre.touchStartY : TRUE) - hist.arg

\* the touch-move handler ran unlocked on a drag that reached the trigger
TouchEvaluated ==
    /\ hist.op = "touchmove"
    /\ ~hist.pre.isAnimating
    /\ hist.pre.touchStartY # {}
    /\ Abs(TouchDelta) >= TOUCH_TRIGGER

TouchTarget == hist.pre.activeIndex + (IF TouchDelta > 0 THEN 1 ELSE -1)

ReleaseTimers == {t \in timers : t.kind = "release"}

\* the element a visibility notification selected has a section id
SelectedWithId ==
    /\ hist.op = "visibility"
    /\ hist.arg.target >= 0
    /\ sections[hist.arg.target + 1].id # ""

EventOf(index) ==
    [id |-> sections[index + 1].id,
     side |-> IF sections[index + 1].side = "right" THEN "right" ELSE "left"]

(* ------------------------------------------------------------------ *)
(* Claims                                                              *)
(* ------------------------------------------------------------------ *)

(* C1: activeIndex is always a valid section index, and a wheel or touch
   trigger whose target lies outside [0, N-1] leaves activeIndex and the
   lock flag as they were, requests no scroll, schedules no release timer
   and publishes nothing. *)
C1_IndexInRangeAndOutOfRangeNoOp ==
    /\ InRange(activeIndex)
    /\ (\/ WheelEvaluated /\ ~InRange(WheelTarget)
        \/ TouchEvaluated /\ ~InRange(TouchTarget)) =>
              /\ activeIndex = hist.pre.activeIndex
              /\ isAnimating = hist.pre.isAnimating
              /\ scrolled = <<>>
              /\ dispatched = <<>>
              /\ releaseTimer = {}
              /\ ReleaseTimers = {}

C1_Witness ==
    /\ WheelEvaluated
    /\ ~InRange(WheelTarget)
    /\ Len(sections) = 3
    /\ activeIndex = 2

(* C2: while the lock flag is set, a wheel or touch-move event of any size
   calls no scrollToIndex, leaves activeIndex alone and publishes nothing;
   no step requests more than one scroll. *)
C2_LockedInputIsSuppressed ==
    /\ Len(scrolled) <= 1
    /\ (hist.op \in {"wheel", "touchmove"} /\ hist.pre.isAnimating) =>
          /\ scrolled = <<>>
          /\ dispatched = <<>>
          /\ activeIndex = hist.pre.activeIndex
          /\ isAnimating

C2_Witness ==
    /\ hist.op = "wheel"
    /\ hist.arg = WHEEL_TRIGGER
    /\ hist.pre.isAnimating
    /\ hist.pre.activeIndex + 1 < Len(sections)

(* C3: while the navigator is mounted and locked, the release timer set
   with the lock is pending and due SCROLL_LOCK_MS after the lock was set,
   however many wheel, touch or visibility events arrived since; the lock
   is never older than SCROLL_LOCK_MS, and the timer's firing clears it. *)
C3_LockReleasedByTime ==
    /\ (navMounted /\ isAnimating) =>
          /\ lockedAt # {}
          /\ \E t \in ReleaseTimers :
                /\ releaseTimer = {t.id}
                /\ \A at \in lockedAt : t.due = at + SCROLL_LOCK_MS
                /\ now <= t.due
    /\ hist.op = "releaseTimer" => ~isAnimating /\ ReleaseTimers = {}

C3_Witness ==
    /\ hist.op = "releaseTimer"
    /\ hist.pre.isAnimating
    /\ ~isAnimating
    /\ now = SCROLL_LOCK_MS

(* C4: the wheel handler requests a transition only when the accumulated
   magnitude has reached WHEEL_TRIGGER, it leaves the accumulator at 0
   whenever that threshold was reached, transition or not, and so the
   accumulator's magnitude is below WHEEL_TRIGGER between handlers. *)
C4_WheelAccumulator ==
    /\ Abs(wheelDelta) < WHEEL_TRIGGER
    /\ (hist.op = "wheel" /\ scrolled # <<>>) => WheelEvaluated
    /\ WheelEvaluated => wheelDelta = 0 /\ wheelResetTimer = {}

C4_Witness ==
    /\ WheelEvaluated
    /\ ~InRange(WheelTarget)
    /\ hist.pre.wheelDelta # 0
    /\ wheelDelta = 0

(* C9: between a recorded touch-start and the next, touch-move calls
   scrollToIndex at most once; a touch-move that reaches TOUCH_TRIGGER
   while unlocked clears the start coordinate, a touch-move without a
   start coordinate does nothing, and touch-end clears the coordinate. *)
C9_OneTransitionPerDrag ==
    /\ touchScrolls <= 1
    /\ TouchEvaluated => touchStartY = {}
    /\ (hist.op = "touchmove" /\ hist.pre.touchStartY = {}) =>
          /\ scrolled = <<>>
          /\ isAnimating = hist.pre.isAnimating
          /\ touchStartY = {}
    /\ hist.op = "touchend" => touchStartY = {}

C9_Witness ==
    /\ hist.op = "touchmove"
    /\ hist.pre.touchStartY = {}
    /\ ~hist.pre.isAnimating
    /\ touchScrolls = 1

(* C5, as claimed: an event is published only by a step that changes
   activeIndex, so activating the section that is already active publishes
   nothing. *)
C5_EventOnlyOnIndexChange ==
    dispatched # <<>> => activeIndex # hist.pre.activeIndex

(* C5, amended: the navigator publishes one event for every activation of
   a section that has an id, by a visibility notification or by the
   deferred initial activation, whether or not activeIndex changes by it;
   the event carries the id and side of the section now active, and no
   other step publishes. *)
C5_OneEventPerActivation ==
    /\ Len(dispatched) <= 1
    /\ dispatched # <<>> =>
          /\ hist.op \in {"visibility", "raf"}
          /\ dispatched[1] = EventOf(activeIndex)
          /\ dispatched[1].side = activeSide
    /\ SelectedWithId => activeIndex = hist.arg.target /\ Len(dispatched) = 1
    /\ (hist.op = "raf" /\ sections[1].id # "") =>
          activeIndex = 0 /\ Len(dispatched) = 1

C5_Witness ==
    /\ SelectedWithId
    /\ hist.pre.activeIndex = hist.arg.target
    /\ activeIndex = hist.arg.target
    /\ Len(dispatched) = 1
    /\ ~rafPending

(* C10, as claimed: the wheel burst that reaches the trigger with its
   target in range requests the scroll, sets the lock, makes the target the
   active section and publishes that section's event. *)
C10_WheelBurstActivatesTarget ==
    (WheelEvaluated /\ InRange(WheelTarget)) =>
        /\ scrolled = <<WheelTarget>>
        /\ isAnimating
        /\ activeIndex = WheelTarget
        /\ dispatched = <<EventOf(WheelTarget)>>

(* C10, amended: the wheel burst that reaches the trigger with its target
   i+1 (i-1 for a negative burst) in range requests the scroll to that
   section and sets the lock, and itself neither changes activeIndex nor
   publishes; activeIndex becomes the target, and the event with the
   target's id and side is published, when a visibility notification
   selects that section, once for each such notification. *)
C10_WheelRequestsNotificationActivates ==
    /\ (WheelEvaluated /\ InRange(WheelTarget)) =>
          /\ scrolled = <<WheelTarget>>
          /\ request = {WheelTarget}
          /\ isAnimating
          /\ wheelDelta = 0
          /\ activeIndex = hist.pre.activeIndex
          /\ dispatched = <<>>
    /\ (SelectedWithId /\ request = {hist.arg.target}) =>
          /\ activeIndex = hist.arg.target
          /\ dispatched = <<EventOf(hist.arg.target)>>
          /\ isAnimating

C10_Witness ==
    /\ SelectedWithId
    /\ request = {hist.arg.target}
    /\ hist.pre.isAnimating
    /\ hist.pre.activeIndex + 1 = hist.arg.target
    /\ activeIndex = hist.arg.target
    /\ dispatched = <<[id |-> "tech", side |-> "right"]>>

\* the ripple at position i is past its duration at the frame's timestamp
Expired(ripple, timestamp) == timestamp > ripple.start + ripple.duration

\* the latest step delivered an event that carries an id
Pushed == hist.op = "sectionchange" /\ hist.arg.id # ""

(* C6: the collection never holds more than MAX_RIPPLES ripples; a push
   into a full collection drops exactly its first, oldest, ripple, whatever
   lifetime that one has left, and keeps the others in order with the new
   ripple last; a push into a collection that is not full drops none. *)
C6_BoundedFifoRipples ==
    /\ Len(ripples) <= MAX_RIPPLES
    /\ Pushed =>
          LET before == hist.pre.ripples
              kept == IF Len(before) = MAX_RIPPLES THEN Tail(before) ELSE before
          IN  /\ Len(ripples) = Len(kept) + 1
              /\ SubSeq(ripples, 1, Len(kept)) = kept
              /\ ripples[Len(ripples)].start = now
              /\ ripples[Len(ripples)].strength = STRENGTH_SECTION

C6_Witness ==
    /\ Pushed
    /\ Len(hist.pre.ripples) = MAX_RIPPLES
    /\ ~Expired(hist.pre.ripples[1], now)
    /\ Expired(hist.pre.ripples[1], now + FrameTickMs)
    /\ hist.pre.ripples[2].start > hist.pre.ripples[1].start
    /\ ripples[1] = hist.pre.ripples[2]

(* C7, as claimed: after a frame painted later than start + duration of a
   ripple, that ripple is no longer in the collection. *)
C7_ExpiredRippleRemovedByFrame ==
    frame.painted =>
        \A i \in 1..Len(ripples) : ~Expired(ripples[i], frame.timestamp)

(* C7, amended: a frame never removes a ripple: after a frame painted
   later than start + duration of a ripple, that ripple is still in the
   collection, where it adds nothing to the field; a ripple leaves the
   collection only as the oldest one when a push finds the collection
   full, so the collection never becomes empty once the startup ripple is
   in it. *)
C7_ExpiredRippleStaysUntilEvicted ==
    /\ frame.painted =>
          /\ ripples = hist.pre.ripples
          /\ Len(frame.cells) = Len(ripples)
          /\ \A i \in 1..Len(ripples) :
                Expired(ripples[i], frame.timestamp) => frame.cells[i].value = 0
    /\ ripples # hist.pre.ripples => Pushed
    /\ Len(ripples) >= Len(hist.pre.ripples)
    /\ Len(ripples) >= 1

C7_Witness ==
    /\ frame.painted
    /\ Len(ripples) = 1
    /\ Expired(ripples[1], frame.timestamp)
    /\ frame.cells[1].age > ripples[1].duration

(* C8: in every frame, every ripple's temporal decay factor is at least
   0, is 0 once the ripple's age has reached its duration, and with it the
   ripple's term of the cell's value is 0; among the ripples of a frame
   whose ages lie in [0, duration], the older has the smaller or equal
   factor. *)
C8_TemporalDecay ==
    frame.painted =>
        /\ \A i \in 1..Len(frame.cells) :
              LET term == frame.cells[i]
              IN  /\ term.age = frame.timestamp - ripples[i].start
                  /\ term.decay >= 0
                  /\ term.age >= ripples[i].duration =>
                        term.decay = 0 /\ term.value = 0
                  /\ term.age < ripples[i].duration => term.decay > 0
        /\ \A i, j \in 1..Len(frame.cells) :
              (/\ 0 <= frame.cells[i].age
               /\ frame.cells[i].age <= frame.cells[j].age
               /\ frame.cells[j].age <= ripples[j].duration) =>
                  frame.cells[i].decay >= frame.cells[j].decay

C8_Witness ==
    /\ frame.painted
    /\ \E i, j, k \in 1..Len(frame.cells) :
          /\ frame.cells[i].age > ripples[i].duration
          /\ frame.cells[i].value = 0
          /\ frame.cells[j].age = ripples[j].duration
          /\ frame.cells[j].decay = 0
          /\ frame.cells[k].age \in 1..(ripples[k].duration - 1)
          /\ frame.cells[k].value # 0

(* C11: a delivered section-change event that carries an id appends exactly
   one ripple, the last of the collection, started at the time of delivery;
   its origin is at 0.18 of the viewport's width when the event's side is
   'right' and at 0.82 of the width when the side is 'left' or missing,
   and at 0.45 of the viewport's height in both cases. *)
C11_RippleOppositeSide ==
    Pushed =>
        LET before == hist.pre.ripples
            kept == IF Len(before) = MAX_RIPPLES THEN Tail(before) ELSE before
            new == ripples[Len(ripples)]
        IN  /\ ripples = Append(kept, new)
            /\ new.start = now
            /\ hist.arg.side = "right" => new.x * 100 = viewport.width * 18
            /\ hist.arg.side \in {"left", ""} => new.x * 100 = viewport.width * 82
            /\ new.y * 100 = viewport.height * 45

C11_Witness ==
    /\ Pushed
    /\ hist.arg.side = "right"
    /\ Len(ripples) = Len(hist.pre.ripples) + 1
    /\ ripples[Len(ripples)].x * 100 = viewport.width * 18
    /\ \E i \in 1..Len(hist.pre.ripples) :
          /\ hist.pre.ripples[i].strength = STRENGTH_SECTION
          /\ hist.pre.ripples[i].x * 100 = viewport.width * 82

\* the steps that run a callback of the navigator, and of the canvas
NavOps == {"wheel", "touchstart", "touchmove", "touchend", "visibility",
           "raf", "wheelResetTimer", "releaseTimer"}

CanvasOps == {"sectionchange", "frame", "resize"}

(* C12: once the navigator's cleanup has run, no timer of its is pending,
   the deferred initial activation is cancelled, and no later step runs
   one of its callbacks, requests a scroll or publishes an event; once the
   canvas's cleanup has run, no frame is requested and no later step
   paints a frame or handles an event. *)
C12_TeardownComplete ==
    /\ ~navMounted =>
          /\ timers = {}
          /\ wheelResetTimer = {}
          /\ ~rafPending
          /\ hist.op \notin NavOps
          /\ dispatched = <<>>
          /\ scrolled = <<>>
    /\ ~canvasMounted =>
          /\ frameRequests = {}
          /\ hist.op \notin CanvasOps
          /\ ~frame.painted

\* the cleanup ran at the very time the lock-release timer was due
C12_Witness ==
    /\ hist.op = "teardown"
    /\ ~navMounted
    /\ isAnimating
    /\ lockedAt = {now - SCROLL_LOCK_MS}
    /\ activeIndex > 0
    /\ timers = {}

(* C13, as claimed: a frame painted after a section-change event with an
   id was delivered colours the cells that are not stars with the tint of
   that id, the active section. *)
C13_TintFollowsActiveSection ==
    frame.painted => frame.colorTint = ColorTint(activeSection)

(* C14: mounting publishes nothing; the activation deferred to the next
   frame runs at most once, with the navigator mounted, and publishes the
   first section's id and side, once, and makes index 0 active; when the
   cleanup runs first, the activation never runs. *)
C14_DeferredInitialActivation ==
    /\ hist.op = "mount" =>
          dispatched = <<>> /\ navMounted /\ rafPending /\ rafRuns = 0
    /\ rafRuns <= 1
    /\ rafPending => navMounted /\ rafRuns = 0
    /\ hist.op = "raf" =>
          /\ navMounted
          /\ ~rafPending
          /\ rafRuns = 1
          /\ sections[1].id # "" =>
                /\ activeIndex = 0
                /\ dispatched = <<EventOf(0)>>
    /\ ~navMounted => ~rafPending /\ hist.op # "raf"
    /\ (hist.op = "teardown" /\ rafRuns = 0) => dispatched = <<>>

\* the frame arrives after a notification had made another section active
C14_Witness ==
    /\ hist.op = "raf"
    /\ hist.pre.activeIndex = 1
    /\ activeIndex = 0
    /\ dispatched = <<[id |-> "about", side |-> "left"]>>
    /\ rafRuns = 1

(* C15, as claimed: a visibility notification makes active the reported
   section with the highest ratio among those at or above the threshold,
   changes and publishes nothing when no reported section reaches the
   threshold, and leaves the lock flag as it found it, set or not.  The
   entry the notification selects has the highest ratio of all, so a
   section reaches the threshold exactly when that entry does. *)
C15_ActiveOnlyAboveThreshold ==
    hist.op = "visibility" =>
        /\ isAnimating = hist.pre.isAnimating
        /\ IF /\ hist.arg.target >= 0
              /\ hist.arg.intersectionRatio >= OBSERVER_THRESHOLD
           THEN sections[hist.arg.target + 1].id # "" =>
                    activeIndex = hist.arg.target
           ELSE /\ activeIndex = hist.pre.activeIndex
                /\ dispatched = <<>>

(* C16: a section-change event without an id, its detail missing or its id
   empty, leaves the ripple collection and the canvas's active section as
   they were; a visibility notification that selects a section element
   without an id leaves activeIndex, the side and the lock as they were and
   publishes nothing. *)
C16_MissingIdIsNoOp ==
    /\ (hist.op = "sectionchange" /\ hist.arg.id = "") =>
          /\ ripples = hist.pre.ripples
          /\ activeSection = hist.pre.activeSection
    /\ (/\ hist.op = "visibility"
        /\ hist.arg.target >= 0
        /\ sections[hist.arg.target + 1].id = "") =>
          /\ activeIndex = hist.pre.activeIndex
          /\ activeSide = hist.pre.activeSide
          /\ isAnimating = hist.pre.isAnimating
          /\ dispatched = <<>>

\* the element without an id is the target of a scroll under way
C16_Witness ==
    /\ hist.op = "visibility"
    /\ hist.arg.target = 1
    /\ sections[2] = [id |-> "", side |-> "right"]
    /\ request = {1}
    /\ isAnimating
    /\ activeIndex = 0
    /\ activeSide = "left"
    /\ dispatched = <<>>

(* C17: after a resize to a grid of cols by rows the star mask has
   cols * rows entries; regenerateStars made max(80, floor(cols * rows *
   0.012)) draws, 80 or more however small the grid; the cells flagged lie
   in the mask and number at most min(cols * rows, draws). *)
C17_StarMask ==
    hist.op = "resize" =>
        LET total == gridMeta.cols * gridMeta.rows
        IN  /\ gridMeta.cols = Ceil(hist.arg.width, CELL_SIZE)
            /\ gridMeta.rows = Ceil(hist.arg.height, CELL_SIZE)
            /\ starMask.length = total
            /\ hist.arg.draws = Max(80, (total * 12) \div 1000)
            /\ hist.arg.draws >= 80
            /\ starMask.stars \subseteq 0..(total - 1)
            /\ Cardinality(starMask.stars) <= Min(total, hist.arg.draws)

\* a grid of 3 by 1 cells takes 80 draws, which all fall on one cell
C17_Witness ==
    /\ hist.op = "resize"
    /\ gridMeta.cols = 3
    /\ gridMeta.rows = 1
    /\ starMask.length = 3
    /\ hist.arg.draws = 80
    /\ Cardinality(starMask.stars) = 1

WheelResetTimers == {t \in timers : t.kind = "wheelReset"}

\* the wheel handler ran unlocked and its accumulator stayed below the trigger
WheelAccumulated ==
    /\ hist.op = "wheel"
    /\ ~hist.pre.isAnimating
    /\ ~WheelEvaluated

(* C18: at most one wheel-reset timer is pending, the one wheelResetTimer
   names; while the accumulator is not 0 that timer is pending and due
   within WHEEL_RESET_MS; a wheel event that accumulates without reaching
   the trigger leaves the timer due WHEEL_RESET_MS from then; and the
   timer's firing sets the accumulator to 0 and leaves no timer. *)
C18_WheelAccumulatorDecays ==
    /\ Cardinality(WheelResetTimers) <= 1
    /\ wheelResetTimer = {t.id : t \in WheelResetTimers}
    /\ wheelDelta # 0 =>
          \E t \in WheelResetTimers :
              now <= t.due /\ t.due <= now + WHEEL_RESET_MS
    /\ WheelAccumulated =>
          /\ wheelDelta = hist.pre.wheelDelta + hist.arg
          /\ \E t \in WheelResetTimers : t.due = now + WHEEL_RESET_MS
    /\ hist.op = "wheelResetTimer" =>
          wheelDelta = 0 /\ WheelResetTimers = {}

\* the timer fires one window after the second of two wheel events
C18_Witness ==
    /\ hist.op = "wheelResetTimer"
    /\ hist.pre.wheelDelta = -40
    /\ wheelDelta = 0
    /\ now = 2 * WHEEL_RESET_MS
    /\ timers = {}

(* C19: while the lock flag is set the accumulator is 0 and no wheel-reset
   timer is pending, so the accumulator is 0 when the lock is released;
   and a wheel event that finds the accumulator at 0 requests a scroll
   only if its own delta reaches WHEEL_TRIGGER. *)
C19_NothingCarriedOverTheLock ==
    /\ isAnimating =>
          wheelDelta = 0 /\ wheelResetTimer = {} /\ WheelResetTimers = {}
    /\ hist.op = "releaseTimer" => wheelDelta = 0 /\ WheelResetTimers = {}
    /\ (hist.op = "wheel" /\ hist.pre.wheelDelta = 0 /\ scrolled # <<>>) =>
          Abs(hist.arg) >= WHEEL_TRIGGER
    /\ (hist.op = "wheel" /\ hist.pre.isAnimating) =>
          wheelDelta = hist.pre.wheelDelta

\* a wheel event below the trigger arrives during the lock
C19_Witness ==
    /\ hist.op = "wheel"
    /\ hist.pre.isAnimating
    /\ hist.arg = 40
    /\ isAnimating
    /\ wheelDelta = 0
    /\ now > 0

(* C20: while the navigator is mounted the lock flag is set exactly when
   releaseTimer is not null, and then the timer it names is the one
   lock-release timer pending; without the lock none is pending. *)
C20_LockedIffReleasePending ==
    /\ Cardinality(ReleaseTimers) <= 1
    /\ navMounted =>
          /\ isAnimating <=> releaseTimer # {}
          /\ isAnimating <=> Cardinality(ReleaseTimers) = 1
          /\ releaseTimer = {t.id : t \in ReleaseTimers}

\* a drag has set the lock while a wheel burst was accumulating
C20_Witness ==
    /\ hist.op = "touchmove"
    /\ hist.pre.wheelDelta # 0
    /\ scrolled # <<>>
    /\ isAnimating
    /\ navMounted
    /\ Cardinality(ReleaseTimers) = 1
    /\ timers = ReleaseTimers

=============================================================================
